---- MODULE Spec2Model ----
(***************************************************************************)
(* The listings application: the Listing / Booking / Review tables of      *)
(* listings/models.py, the write path of the serializers of                *)
(* listings/serializers.py and the seed management command.                *)
(*                                                                         *)
(* Money is counted in hundredths (DecimalField, decimal_places=2), dates  *)
(* in days.  The free-text columns (name, description, location, comment)  *)
(* carry no constraint and are left out of the rows.                       *)
(***************************************************************************)
EXTENDS Integers, Sequences, FiniteSets

VARIABLES users, listings, bookings, reviews, nextId, today, response, runs

vars == <<users, listings, bookings, reviews, nextId, today, response, runs>>
store == <<users, listings, bookings, reviews>>

(***************************************************************************)
(* Bounds of the model.                                                    *)
(***************************************************************************)
MaxRows == 1
MaxSeed == 11
MaxRuns == 2

\* Python's None, for a key a dict does not hold.
None == -1

(***************************************************************************)
(* Inputs of the write representations.  The accounts are owned by the     *)
(* identity subsystem: two of them exist from the start, one of them       *)
(* hosts a listing and the other one has reviewed it.                      *)
(***************************************************************************)
ApiUsers ==
    { [id |-> 1, username |-> <<"a", "n", "n">>, is_superuser |-> FALSE],
      [id |-> 2, username |-> <<"b", "o", "b">>, is_superuser |-> FALSE] }

ApiListings == { [id |-> 3, host |-> 1, price_per_night |-> 12000] }

ApiReviews == { [id |-> 4, property |-> 3, user |-> 2, rating |-> 3] }

FirstRowId == Cardinality(ApiUsers) + 1
FirstFreeId == FirstRowId + Cardinality(ApiListings) + Cardinality(ApiReviews)
MaxId == FirstFreeId + MaxRows - 1
UserIdInputs == 1..Cardinality(ApiUsers)
\* The stored listing's identifier, the stored review's (never a listing) and
\* the first one handed out afterwards.
RowIdInputs == FirstRowId..FirstFreeId
PriceInputs == {-1, 0, 12000}
TotalPriceInputs == {0, 36000}
Dates == {0, 1}
RatingInputs == {0, 3, 6}
STATUS_CHOICES == {"pending", "confirmed", "canceled"}
StatusInputs == {"confirmed", "refunded"}

(***************************************************************************)
(* rest_framework: Serializer.to_internal_value calls, for each declared   *)
(* field f, the method validate_<f> when the class defines it;             *)
(* run_validation then calls validate(attrs).  No other method name is     *)
(* looked up.                                                              *)
(***************************************************************************)
FieldHookRuns(methods, fields, f) == f \in fields /\ ("validate_" \o f) \in methods

HookRuns(methods, fields, m) ==
    \/ m = "validate" /\ m \in methods
    \/ \E f \in fields : m = "validate_" \o f /\ FieldHookRuns(methods, fields, f)

ResolvesMut(pk, table) == TRUE

\* PrimaryKeyRelatedField(queryset=...): the pk must name a row of the queryset.
Resolves(pk, table) == \E row \in table : row.id = pk

(***************************************************************************)
(* models.py                                                               *)
(***************************************************************************)
\* MinValueValidator(0.01) on a Decimal: the limit is the float 0.01, which is
\* larger than 1/100, so a value passes only from 0.02 upward.
MinValueValidator_float001(value) == value <= 1

Rating_validators(value) == value < 1 \/ value > 5

\* Booking.clean(): TRUE when it raises.  Model.full_clean() calls it; save()
\* and objects.create() do not.
Booking_clean(b) ==
    b.end_date # None /\ b.start_date # None /\ b.end_date <= b.start_date

UniqueTogetherMut(table, property, user, instance) == FALSE

\* Meta.unique_together = ['property', 'user'] on the review table (instance:
\* the row being updated, None on insert).
UniqueTogether(table, property, user, instance) ==
    \E r \in table : r.property = property /\ r.user = user /\ r.id # instance

Ids(table) == {row.id : row \in table}

Listing_deleteMut(db, ls) == [db EXCEPT !.listings = @ \ ls]

\* QuerySet.delete() on listings: the Booking.property and Review.property
\* keys are on_delete=CASCADE.  db holds the four tables.
Listing_delete(db, ls) ==
    [db EXCEPT !.listings = @ \ ls,
               !.bookings = {b \in @ : b.property \notin Ids(ls)},
               !.reviews = {r \in @ : r.property \notin Ids(ls)}]

\* QuerySet.delete() on users: Listing.host, Booking.user and Review.user are
\* on_delete=CASCADE, and the listings that go take their own rows along.
User_delete(db, us) ==
    Listing_delete(
        [db EXCEPT !.users = @ \ us,
                   !.bookings = {b \in @ : b.user \notin Ids(us)},
                   !.reviews = {r \in @ : r.user \notin Ids(us)}],
        {l \in db.listings : l.host \in Ids(us)})

Db == [users |-> users, listings |-> listings, bookings |-> bookings,
       reviews |-> reviews]

StoreBecomes(db) ==
    /\ users' = db.users
    /\ listings' = db.listings
    /\ bookings' = db.bookings
    /\ reviews' = db.reviews

(***************************************************************************)
(* serializers.py                                                          *)
(***************************************************************************)
ListingSerializer_fields ==
    {"property_id", "host", "host_id", "name", "description", "location",
     "price_per_night", "created_at", "updated_at"}

ListingSerializer_methods == {"validate_price_per_night"}

validate_price_per_night(value) == value <= 0

ListingSerializer_errorsMut(data) ==
    IF ~Resolves(data.host_id, users) THEN {"host_id"} ELSE {}

\* The fields that fail: host_id against User.objects.all(), price_per_night
\* against the column's validator and then the validate_price_per_night hook.
ListingSerializer_errors(data) ==
    (IF ~Resolves(data.host_id, users) THEN {"host_id"} ELSE {})
    \cup
    (IF \/ MinValueValidator_float001(data.price_per_night)
        \/ /\ FieldHookRuns(ListingSerializer_methods, ListingSerializer_fields,
                             "price_per_night")
           /\ validate_price_per_night(data.price_per_night)
     THEN {"price_per_night"} ELSE {})

BookingSerializer_fields ==
    {"booking_id", "property", "property_id", "user", "user_id", "start_date",
     "end_date", "total_price", "status", "created_at"}

BookingSerializer_methods == {"validate_booking"}

\* validate_booking(self, data): TRUE when it raises.  instance is None for a
\* serializer that creates.
validate_booking(data, instance) ==
    /\ data.start_date # None
    /\ data.end_date # None
    /\ \/ data.end_date <= data.start_date
       \/ instance = None /\ data.start_date < today

BookingSerializer_errors(data, instance) ==
    LET fieldErrors ==
            (IF ~Resolves(data.property_id, listings) THEN {"property_id"} ELSE {})
            \cup (IF ~Resolves(data.user_id, users) THEN {"user_id"} ELSE {})
            \cup (IF MinValueValidator_float001(data.total_price)
                  THEN {"total_price"} ELSE {})
            \cup (IF data.status \notin STATUS_CHOICES THEN {"status"} ELSE {})
    IN  IF fieldErrors # {} THEN fieldErrors
        ELSE IF /\ HookRuns(BookingSerializer_methods, BookingSerializer_fields,
                            "validate_booking")
                /\ validate_booking(data, instance)
             THEN {"non_field_errors"}
             ELSE {}

ReviewSerializer_fields ==
    {"review_id", "property", "property_id", "user", "user_id", "rating",
     "comment", "created_at"}

ReviewSerializer_methods == {"validate_rating"}

validate_rating(value) == value < 1 \/ value > 5

ReviewSerializer_errorsMut(data, instance) ==
    LET fieldErrors ==
            (IF ~Resolves(data.property_id, listings) THEN {"property_id"} ELSE {})
            \cup (IF ~Resolves(data.user_id, users) THEN {"user_id"} ELSE {})
            \cup (IF data.rating < 0 \/ data.rating > 5 THEN {"rating"} ELSE {})
    IN  IF fieldErrors # {} THEN fieldErrors
        ELSE IF UniqueTogether(reviews, data.property_id, data.user_id, instance)
             THEN {"non_field_errors"}
             ELSE {}

\* Field errors first; the unique-together check of (property, user) runs on
\* the validated fields only.
ReviewSerializer_errors(data, instance) ==
    LET fieldErrors ==
            (IF ~Resolves(data.property_id, listings) THEN {"property_id"} ELSE {})
            \cup (IF ~Resolves(data.user_id, users) THEN {"user_id"} ELSE {})
            \cup (IF \/ Rating_validators(data.rating)
                     \/ /\ FieldHookRuns(ReviewSerializer_methods,
                                          ReviewSerializer_fields, "rating")
                        /\ validate_rating(data.rating)
                  THEN {"rating"} ELSE {})
    IN  IF fieldErrors # {} THEN fieldErrors
        ELSE IF UniqueTogether(reviews, data.property_id, data.user_id, instance)
             THEN {"non_field_errors"}
             ELSE {}

ListingInputs == [host_id : UserIdInputs, price_per_night : PriceInputs]

\* Every reference and date pair with a payable price and a known status, and
\* every price and status on one otherwise valid booking.
BookingInputs ==
    [property_id : RowIdInputs, user_id : UserIdInputs, start_date : Dates,
     end_date : Dates, total_price : {36000}, status : {"confirmed"}]
    \cup
    [property_id : {FirstRowId}, user_id : {1}, start_date : {0}, end_date : {1},
     total_price : TotalPriceInputs, status : StatusInputs]

ReviewInputs == [property_id : RowIdInputs, user_id : UserIdInputs, rating : RatingInputs]

Rejected(op, errors) == [op |-> op, status |-> "rejected", errors |-> errors]

Done(op, status) == [op |-> op, status |-> status, errors |-> {}]

(***************************************************************************)
(* The write path: serializer.is_valid(), then serializer.save(), which    *)
(* is Model.objects.create of the validated data, or setattr and           *)
(* instance.save() on update.                                              *)
(* Neither calls Model.full_clean(), so Booking.clean is not run.          *)
(***************************************************************************)
CreateListing(data) ==
    /\ nextId <= MaxId
    /\ LET errors == ListingSerializer_errors(data) IN
        IF errors # {}
        THEN /\ response' = Rejected("create_listing", errors)
             /\ UNCHANGED <<listings, nextId>>
        ELSE /\ listings' = listings \cup
                    {[id |-> nextId, host |-> data.host_id,
                      price_per_night |-> data.price_per_night]}
             /\ nextId' = nextId + 1
             /\ response' = Done("create_listing", "created")
    /\ UNCHANGED <<users, bookings, reviews, today, runs>>

UpdateListing(l, data) ==
    /\ l \in listings
    /\ LET errors == ListingSerializer_errors(data) IN
        IF errors # {}
        THEN /\ response' = Rejected("update_listing", errors)
             /\ UNCHANGED listings
        ELSE /\ listings' = (listings \ {l}) \cup
                    {[l EXCEPT !.host = data.host_id,
                               !.price_per_night = data.price_per_night]}
             /\ response' = Done("update_listing", "updated")
    /\ UNCHANGED <<users, bookings, reviews, nextId, today, runs>>

CreateBooking(data) ==
    /\ nextId <= MaxId
    /\ LET errors == BookingSerializer_errors(data, None) IN
        IF errors # {}
        THEN /\ response' = Rejected("create_booking", errors)
             /\ UNCHANGED <<bookings, nextId>>
        ELSE /\ bookings' = bookings \cup
                    {[id |-> nextId, property |-> data.property_id,
                      user |-> data.user_id, start_date |-> data.start_date,
                      end_date |-> data.end_date, total_price |-> data.total_price,
                      status |-> data.status, created_at |-> today]}
             /\ nextId' = nextId + 1
             /\ response' = Done("create_booking", "created")
    /\ UNCHANGED <<users, listings, reviews, today, runs>>

UpdateBooking(b, data) ==
    /\ b \in bookings
    /\ LET errors == BookingSerializer_errors(data, b.id) IN
        IF errors # {}
        THEN /\ response' = Rejected("update_booking", errors)
             /\ UNCHANGED bookings
        ELSE /\ bookings' = (bookings \ {b}) \cup
                    {[b EXCEPT !.property = data.property_id, !.user = data.user_id,
                               !.start_date = data.start_date,
                               !.end_date = data.end_date,
                               !.total_price = data.total_price,
                               !.status = data.status]}
             /\ response' = Done("update_booking", "updated")
    /\ UNCHANGED <<users, listings, reviews, nextId, today, runs>>

CreateReview(data) ==
    /\ nextId <= MaxId
    /\ LET errors == ReviewSerializer_errors(data, None) IN
        IF errors # {}
        THEN /\ response' = Rejected("create_review", errors)
             /\ UNCHANGED <<reviews, nextId>>
        ELSE /\ reviews' = reviews \cup
                    {[id |-> nextId, property |-> data.property_id,
                      user |-> data.user_id, rating |-> data.rating]}
             /\ nextId' = nextId + 1
             /\ response' = Done("create_review", "created")
    /\ UNCHANGED <<users, listings, bookings, today, runs>>

UpdateReview(r, data) ==
    /\ r \in reviews
    /\ LET errors == ReviewSerializer_errors(data, r.id) IN
        IF errors # {}
        THEN /\ response' = Rejected("update_review", errors)
             /\ UNCHANGED reviews
        ELSE /\ reviews' = (reviews \ {r}) \cup
                    {[r EXCEPT !.property = data.property_id, !.user = data.user_id,
                               !.rating = data.rating]}
             /\ response' = Done("update_review", "updated")
    /\ UNCHANGED <<users, listings, bookings, nextId, today, runs>>

\* Model.delete(): the collector follows every on_delete=CASCADE key.
DeleteListing(l) ==
    /\ l \in listings
    /\ StoreBecomes(Listing_delete(Db, {l}))
    /\ response' = Done("delete_listing", "deleted")
    /\ UNCHANGED <<nextId, today, runs>>

DeleteUser(u) ==
    /\ u \in users
    /\ StoreBecomes(User_delete(Db, {u}))
    /\ response' = Done("delete_user", "deleted")
    /\ UNCHANGED <<nextId, today, runs>>

\* timezone.now().date() moves on.
Tick ==
    /\ today + 1 \in Dates
    /\ today' = today + 1
    /\ UNCHANGED <<users, listings, bookings, reviews, nextId, response, runs>>

Init ==
    /\ users = ApiUsers
    /\ listings = ApiListings
    /\ bookings = {}
    /\ reviews = ApiReviews
    /\ nextId = FirstFreeId
    /\ today = 0
    /\ response = Done("none", "none")
    /\ runs = <<>>

Next ==
    \/ \E data \in ListingInputs : CreateListing(data)
    \/ \E l \in listings, data \in ListingInputs : UpdateListing(l, data)
    \/ \E data \in BookingInputs : CreateBooking(data)
    \/ \E b \in bookings, data \in BookingInputs : UpdateBooking(b, data)
    \/ \E data \in ReviewInputs : CreateReview(data)
    \/ \E r \in reviews, data \in ReviewInputs : UpdateReview(r, data)
    \/ \E l \in listings : DeleteListing(l)
    \/ \E u \in users : DeleteUser(u)
    \/ Tick

Spec == Init /\ [][Next]_vars

(***************************************************************************)
(* management/commands/seed.py                                             *)
(*                                                                         *)
(* The random module is a generator seeded once per process: every draw    *)
(* advances its state and takes its value from it.  The generator here is  *)
(* a linear congruential one; the seed of an invocation is free.           *)
(***************************************************************************)
RandMod == 65537
RandMul == 75
RandInc == 74

NextRand(r) == (r * RandMul + RandInc) % RandMod

\* random.randint(a, b), from the generator state r after its step.
randint(r, a, b) == a + (r % (b - a + 1))

\* random.choice(seq), likewise.
choice(r, seq) == seq[(r % Len(seq)) + 1]

Remove(seq, j) == SubSeq(seq, 1, j - 1) \o SubSeq(seq, j + 1, Len(seq))

RECURSIVE choices(_, _, _)
choices(r, population, k) ==
    IF k = 0 THEN [out |-> <<>>, rng |-> r]
    ELSE LET r1 == NextRand(r)
             rest == choices(r1, population, k - 1)
         IN  [out |-> <<choice(r1, population)>> \o rest.out, rng |-> rest.rng]

RECURSIVE sample(_, _, _)
\* random.sample(population, k): k elements at distinct positions.
sample(r, population, k) ==
    IF k = 0 THEN [out |-> <<>>, rng |-> r]
    ELSE LET r1 == NextRand(r)
             j == (r1 % Len(population)) + 1
             rest == sample(r1, Remove(population, j), k - 1)
         IN  [out |-> <<population[j]>> \o rest.out, rng |-> rest.rng]

\* sub in seq, on strings as tuples of characters.
Contains(sub, seq) ==
    \E i \in 1..(Len(seq) - Len(sub) + 1) : SubSeq(seq, i, i + Len(sub) - 1) = sub

Min(a, b) == IF a < b THEN a ELSE b

users_data ==
    << <<"j", "o", "h", "n", "_", "h", "o", "s", "t">>,
       <<"j", "a", "n", "e", "_", "h", "o", "s", "t">>,
       <<"m", "i", "k", "e", "_", "g", "u", "e", "s", "t">>,
       <<"s", "a", "r", "a", "h", "_", "g", "u", "e", "s", "t">>,
       <<"d", "a", "v", "i", "d", "_", "h", "o", "s", "t">>,
       <<"e", "m", "m", "a", "_", "g", "u", "e", "s", "t">> >>

\* price_per_night of listings_data, in hundredths.
listings_data == <<25000, 18000, 30000, 45000, 12000, 22000, 19500, 35000>>

statuses == <<"pending", "confirmed", "confirmed", "confirmed", "canceled">>

NumBookings == 15
NumSampled == 6
MinOffset == -30
MaxOffset == 60
MinDuration == 2
MaxDuration == 14
MinNumReviews == 1
MaxNumReviews == 3
MinRating == 3
MaxRating == 5

get_or_createMut(st, username) ==
    [user |-> [id |-> st.nextId, username |-> username, is_superuser |-> FALSE],
     st |-> [st EXCEPT !.users = @ \cup {[id |-> st.nextId, username |-> username,
                                          is_superuser |-> FALSE]},
                       !.nextId = @ + 1]]

\* User.objects.get_or_create(username=...): st is the store with the next
\* identifier, the generator state and whether the command is still running.
get_or_create(st, username) ==
    IF \E u \in st.users : u.username = username
    THEN [user |-> CHOOSE u \in st.users : u.username = username, st |-> st]
    ELSE LET user == [id |-> st.nextId, username |-> username, is_superuser |-> FALSE]
         IN  [user |-> user,
              st |-> [st EXCEPT !.users = @ \cup {user}, !.nextId = @ + 1]]

RECURSIVE create_users_loop(_, _, _)
create_users_loop(st, out, i) ==
    IF i > Len(users_data) THEN [out |-> out, st |-> st]
    ELSE LET got == get_or_create(st, users_data[i])
         IN  create_users_loop(got.st, Append(out, got.user), i + 1)

create_users(st) == create_users_loop(st, <<>>, 1)

IsHost(user) == Contains(<<"h", "o", "s", "t">>, user.username)

IsGuest(user) == Contains(<<"g", "u", "e", "s", "t">>, user.username)

RECURSIVE create_listings_loop(_, _, _, _)
\* i counts from 0, as enumerate does.
create_listings_loop(st, hosts, out, i) ==
    IF i = Len(listings_data) \/ ~st.ok THEN [out |-> out, st |-> st]
    ELSE IF Len(hosts) = 0 THEN [out |-> out, st |-> [st EXCEPT !.ok = FALSE]]
    ELSE LET listing == [id |-> st.nextId, host |-> hosts[(i % Len(hosts)) + 1].id,
                         price_per_night |-> listings_data[i + 1]]
         IN  create_listings_loop(
                 [st EXCEPT !.listings = @ \cup {listing}, !.nextId = @ + 1],
                 hosts, Append(out, listing), i + 1)

create_listings(st, us) == create_listings_loop(st, SelectSeq(us, IsHost), <<>>, 0)

Booking_total_priceMut(listing, duration) == listing.price_per_night * (duration + 1)

Booking_total_price(listing, duration) == listing.price_per_night * duration

RECURSIVE create_bookings_loop(_, _, _, _)
create_bookings_loop(st, ls, guests, i) ==
    IF i = NumBookings \/ ~st.ok THEN st
    ELSE IF Len(ls) = 0 \/ Len(guests) = 0 THEN [st EXCEPT !.ok = FALSE]
    ELSE LET r1 == NextRand(st.rng)
             listing == choice(r1, ls)
             r2 == NextRand(r1)
             guest == choice(r2, guests)
             r3 == NextRand(r2)
             start_offset == randint(r3, MinOffset, MaxOffset)
             r4 == NextRand(r3)
             duration == randint(r4, MinDuration, MaxDuration)
             start_date == today + start_offset
             end_date == start_date + duration
             r5 == NextRand(r4)
             booking == [id |-> st.nextId, property |-> listing.id, user |-> guest.id,
                         start_date |-> start_date, end_date |-> end_date,
                         total_price |-> Booking_total_price(listing, duration),
                         status |-> choice(r5, statuses), created_at |-> today]
         IN  create_bookings_loop(
                 [st EXCEPT !.bookings = @ \cup {booking}, !.nextId = @ + 1,
                            !.rng = r5],
                 ls, guests, i + 1)

create_bookings(st, ls, us) == create_bookings_loop(st, ls, SelectSeq(us, IsGuest), 0)

RECURSIVE create_reviews_guests(_, _, _, _)
\* Review.objects.create for each sampled guest: rating, then comment, are
\* drawn; an insert that breaks unique_together raises and ends the command.
create_reviews_guests(st, listing, review_guests, i) ==
    IF i > Len(review_guests) \/ ~st.ok THEN st
    ELSE LET r1 == NextRand(st.rng)
             r2 == NextRand(r1)
             review == [id |-> st.nextId, property |-> listing.id,
                        user |-> review_guests[i].id,
                        rating |-> randint(r1, MinRating, MaxRating)]
         IN  IF UniqueTogether(st.reviews, review.property, review.user, None)
             THEN [st EXCEPT !.ok = FALSE, !.rng = r2]
             ELSE create_reviews_guests(
                      [st EXCEPT !.reviews = @ \cup {review}, !.nextId = @ + 1,
                                 !.rng = r2],
                      listing, review_guests, i + 1)

RECURSIVE create_reviews_loop(_, _, _, _)
create_reviews_loop(st, sampled, guests, i) ==
    IF i > Len(sampled) \/ ~st.ok THEN st
    ELSE LET r1 == NextRand(st.rng)
             num_reviews == randint(r1, MinNumReviews, MaxNumReviews)
             drawn == sample(r1, guests, Min(num_reviews, Len(guests)))
         IN  create_reviews_loop(
                 create_reviews_guests([st EXCEPT !.rng = drawn.rng], sampled[i],
                                       drawn.out, 1),
                 sampled, guests, i + 1)

create_reviews(st, ls, us) ==
    LET drawn == sample(st.rng, ls, Min(NumSampled, Len(ls)))
    IN  create_reviews_loop([st EXCEPT !.rng = drawn.rng], drawn.out,
                            SelectSeq(us, IsGuest), 1)

\* The --clear branch of handle.
clear(db) ==
    LET d1 == [db EXCEPT !.reviews = {}]
        d2 == [d1 EXCEPT !.bookings = {}]
        d3 == Listing_delete(d2, d2.listings)
    IN  User_delete(d3, {u \in d3.users : ~u.is_superuser})

\* handle(): the store it leaves, from the seed of the process's generator.
handle(clearFlag, seed) ==
    LET db == IF clearFlag THEN clear(Db) ELSE Db
        st0 == [users |-> db.users, listings |-> db.listings,
                bookings |-> db.bookings, reviews |-> db.reviews,
                nextId |-> nextId, rng |-> seed, ok |-> TRUE]
        us == create_users(st0)
        ls == create_listings(us.st, us.out)
        st3 == create_bookings(ls.st, ls.out, us.out)
    IN  create_reviews(st3, ls.out, us.out)

Seeds == 0..MaxSeed

Seed(clearFlag, seed) ==
    /\ Len(runs) < MaxRuns
    /\ LET st == handle(clearFlag, seed) IN
        /\ StoreBecomes(st)
        /\ nextId' = st.nextId
        /\ response' = IF st.ok THEN Done("seed", "done")
                       ELSE [op |-> "seed", status |-> "error",
                             errors |-> {"IntegrityError"}]
    /\ runs' = Append(runs, clearFlag)
    /\ UNCHANGED today

Superuser == [id |-> 1, username |-> <<"r", "o", "o", "t">>, is_superuser |-> TRUE]

SeedInit ==
    /\ users \in {{}, {Superuser}}
    /\ listings = {}
    /\ bookings = {}
    /\ reviews = {}
    /\ nextId = Cardinality(users) + 1
    /\ today = 0
    /\ response = Done("none", "none")
    /\ runs = <<>>

SeedNext == \E clearFlag \in BOOLEAN, seed \in Seeds : Seed(clearFlag, seed)

SeedSpec == SeedInit /\ [][SeedNext]_vars

(***************************************************************************)
(* Properties of the write path.                                           *)
(***************************************************************************)
RejectedOn(field) ==
    /\ response'.status = "rejected"
    /\ field \in response'.errors
    /\ UNCHANGED store

\* C1: every stored Booking has end_date strictly after start_date (a create
\* or an update with end_date <= start_date is rejected).
C1_EndAfterStart == \A b \in bookings : b.end_date > b.start_date

\* C2: every stored Listing has price_per_night > 0; a create or an update
\* submitted with price_per_night <= 0 is rejected with an error on
\* price_per_night and leaves the store as it was.
C2_PricePositive ==
    /\ [](\A l \in listings : l.price_per_night > 0)
    /\ [][/\ response'.op = "create_listing" =>
               \A data \in ListingInputs :
                   (data.price_per_night <= 0 /\ CreateListing(data))
                   => RejectedOn("price_per_night")
          /\ response'.op = "update_listing" =>
               \A data \in ListingInputs, l \in listings :
                   (data.price_per_night <= 0 /\ UpdateListing(l, data))
                   => RejectedOn("price_per_night")]_vars

C2_Witness ==
    /\ response = Rejected("update_listing", {"price_per_night"})
    /\ listings # {}

\* C3: no two stored Reviews share a (property, user) pair; a create, or an
\* update of another Review, that submits a pair already stored is rejected
\* and leaves the store as it was.
C3_OneReviewPerPair ==
    /\ [](\A r1, r2 \in reviews :
            (r1.property = r2.property /\ r1.user = r2.user) => r1 = r2)
    /\ [][LET taken(rs, data) == \E q \in rs : /\ q.property = data.property_id
                                                /\ q.user = data.user_id
          IN  /\ response'.op = "create_review" =>
                   \A data \in ReviewInputs :
                       (taken(reviews, data) /\ CreateReview(data))
                       => response'.status = "rejected" /\ UNCHANGED store
              /\ response'.op = "update_review" =>
                   \A data \in ReviewInputs, r \in reviews :
                       (taken(reviews \ {r}, data) /\ UpdateReview(r, data))
                       => response'.status = "rejected" /\ UNCHANGED store]_vars

C3_Witness ==
    /\ response = Rejected("create_review", {"non_field_errors"})
    /\ reviews # {}

\* C4: no stored row references a row that is not stored: a Listing's host, a
\* Booking's and a Review's property and user all exist, after any creates,
\* updates and deletes (a delete takes the referencing rows with it).
C4_NoDanglingReference ==
    /\ \A l \in listings : l.host \in Ids(users)
    /\ \A b \in bookings : b.property \in Ids(listings) /\ b.user \in Ids(users)
    /\ \A r \in reviews : r.property \in Ids(listings) /\ r.user \in Ids(users)

C4_Witness ==
    /\ response.op = "delete_listing"
    /\ users = ApiUsers
    /\ nextId > FirstFreeId
    /\ listings = {} /\ bookings = {} /\ reviews = {}

\* C5: every stored Review has 1 <= rating <= 5; a create or an update with a
\* rating below 1 or above 5 is rejected with an error on rating and leaves
\* the store as it was.
C5_RatingInRange ==
    /\ [](\A r \in reviews : 1 <= r.rating /\ r.rating <= 5)
    /\ [][/\ response'.op = "create_review" =>
               \A data \in ReviewInputs :
                   ((data.rating < 1 \/ data.rating > 5) /\ CreateReview(data))
                   => RejectedOn("rating")
          /\ response'.op = "update_review" =>
               \A data \in ReviewInputs, r \in reviews :
                   ((data.rating < 1 \/ data.rating > 5) /\ UpdateReview(r, data))
                   => RejectedOn("rating")]_vars

C5_Witness ==
    /\ response = Rejected("update_review", {"rating"})
    /\ reviews # {}

\* C6: a create of a Booking whose start_date is before today is rejected, so
\* every stored Booking has start_date on or after the day it was created.
C6_NoPastStartOnCreate ==
    /\ [](\A b \in bookings : b.start_date >= b.created_at)
    /\ [][response'.op = "create_booking" =>
               \A data \in BookingInputs :
                   (data.start_date < today /\ CreateBooking(data))
                   => response'.status = "rejected" /\ UNCHANGED store]_vars

\* C7: a write whose host_id, property_id or user_id names no stored row is
\* rejected with an error on that field and leaves the store as it was: every
\* step that is such a write of some data refuses it on each unresolved field.
C7_UnresolvedReferenceRejected ==
    [][LET noHost(data) == data.host_id \notin Ids(users)
           noProperty(data) == data.property_id \notin Ids(listings)
           noUser(data) == data.user_id \notin Ids(users)
           refusedHost(data) == noHost(data) => RejectedOn("host_id")
           refused(data) ==
               /\ noProperty(data) => RejectedOn("property_id")
               /\ noUser(data) => RejectedOn("user_id")
       IN  /\ response'.op = "create_listing" =>
                \A data \in ListingInputs :
                    refusedHost(data) \/ ~CreateListing(data)
           /\ response'.op = "update_listing" =>
                \A data \in ListingInputs, l \in listings :
                    refusedHost(data) \/ ~UpdateListing(l, data)
           /\ response'.op = "create_booking" =>
                \A data \in BookingInputs :
                    refused(data) \/ ~CreateBooking(data)
           /\ response'.op = "update_booking" =>
                \A data \in BookingInputs, b \in bookings :
                    refused(data) \/ ~UpdateBooking(b, data)
           /\ response'.op = "create_review" =>
                \A data \in ReviewInputs :
                    refused(data) \/ ~CreateReview(data)
           /\ response'.op = "update_review" =>
                \A data \in ReviewInputs, r \in reviews :
                    refused(data) \/ ~UpdateReview(r, data)]_vars

\* An update of a stored Booking that names a user deleted in the meantime.
C7_Witness ==
    /\ response = Rejected("update_booking", {"user_id"})
    /\ Cardinality(users) < Cardinality(ApiUsers)
    /\ bookings # {}

(***************************************************************************)
(* Properties of the seed command.                                         *)
(***************************************************************************)
Seeded == {u \in users : ~u.is_superuser}

\* The invocations since the store was last emptied: those after the last
\* --clear, that one included, or all of them.
RunsSinceClear ==
    LET clears == {i \in 1..Len(runs) : runs[i]}
    IN  IF clears = {} THEN Len(runs)
        ELSE Len(runs) - (CHOOSE i \in clears : \A j \in clears : j <= i) + 1

\* C8: seed --clear on an empty store ends without error and leaves exactly 6
\* Users, 8 Listings, 15 Bookings and at most 18 Reviews, whatever is drawn.
C8_SeedClearOnEmpty ==
    [][(/\ users = {} /\ listings = {} /\ bookings = {} /\ reviews = {}
        /\ runs' = Append(runs, TRUE))
       => /\ response'.status = "done"
          /\ Cardinality(users') = 6
          /\ Cardinality(listings') = 8
          /\ Cardinality(bookings') = 15
          /\ Cardinality(reviews') <= 18]_vars

C8_Witness ==
    /\ runs = <<TRUE>>
    /\ response = Done("seed", "done")
    /\ Cardinality(users) = 6
    /\ Cardinality(reviews) >= 6

\* C9: after n >= 1 invocations since the store was empty or cleared, each
\* seeded username is held by exactly one User, 6 in all, and there are 8n
\* Listings and 15n Bookings; an invocation without --clear keeps every User
\* as it was and adds Reviews; one with --clear leaves at most 18 Reviews.
C9_SeedCounts ==
    /\ [](Len(runs) >= 1 =>
            /\ \A i \in 1..Len(users_data) :
                 Cardinality({u \in users : u.username = users_data[i]}) = 1
            /\ Cardinality(Seeded) = 6
            /\ Cardinality(listings) = 8 * RunsSinceClear
            /\ Cardinality(bookings) = 15 * RunsSinceClear)
    /\ [][/\ runs' = Append(runs, FALSE) =>
                 /\ users \subseteq users'
                 /\ Cardinality(reviews') > Cardinality(reviews)
          /\ runs' = Append(runs, TRUE) => Cardinality(reviews') <= 18]_vars

C9_Witness ==
    /\ runs = <<FALSE, FALSE>>
    /\ Cardinality(users) = 6
    /\ Cardinality(listings) = 16
    /\ Cardinality(bookings) = 30

\* C10: every row the seed inserts keeps the entity invariants: a Listing has
\* a positive price and a stored host; a Booking ends after it starts, has a
\* status among the three choices and total_price = price_per_night x days,
\* positive; a Review has a rating in 1..5; no two Reviews share a (property,
\* user) pair and no insert is refused.
C10_SeedRowsValid ==
    /\ response.status # "error"
    /\ \A l \in listings : l.price_per_night > 0 /\ l.host \in Ids(users)
    /\ \A b \in bookings :
         /\ b.end_date > b.start_date
         /\ b.status \in STATUS_CHOICES
         /\ b.total_price > 0
         /\ \E l \in listings :
              /\ l.id = b.property
              /\ b.total_price = l.price_per_night * (b.end_date - b.start_date)
    /\ \A r \in reviews : 1 <= r.rating /\ r.rating <= 5
    /\ \A r1, r2 \in reviews :
         (r1.property = r2.property /\ r1.user = r2.user) => r1 = r2

C10_Witness ==
    /\ runs = <<TRUE, FALSE>>
    /\ Cardinality(bookings) = 30
    /\ Cardinality(reviews) > 18
    /\ \E b \in bookings : b.status = "canceled"

====
